---- MODULE Spec2Model ----
(***************************************************************************)
(* The real-time ingestion and caching pipeline of fi-compass:             *)
(*   backend_main/app/services/pubsub_consumer.py       (consumer "B")     *)
(*   stock_market_data/app/services/pubsub_consumer.py  (consumer "S")     *)
(*   backend_main/app/routes/screentime.py              (ingest route)     *)
(* Pub/Sub (the broker), BigQuery (the archive) and Firestore (the live    *)
(* cache) are the environment; their state is what the consumers' calls    *)
(* leave in them.                                                          *)
(***************************************************************************)
EXTENDS Integers, Sequences, FiniteSets, TLC

VARIABLES
    msgs,              \* broker: the published messages, by message id (a sequence)
    queue,             \* broker: ids of the messages waiting for (re)delivery
    dlv,               \* per message, its deliveries so far and how each was resolved
    tasks,             \* B: the _process_*_data tasks created by callbacks, not finished
    archive,           \* BigQuery: per stream, the rows inserted (in insertion order)
    market_data,       \* Firestore collection market_data: symbol -> document
    price_history,     \* Firestore subcollections market_data/{symbol}/price_history
    screentime_daily,  \* Firestore collection screentime_daily: key -> document
    screentime_data,   \* Firestore collection screentime_data (S), auto-id documents
    subs,              \* open streaming pulls, per consumer and stream
    running,           \* B: self._running        S: self.running
    loops,             \* B: per stream, where each _consume_* task is (one per start)
    consumer_tasks,    \* S: self.consumer_tasks, and tasks cleared from it
    stop_requested,    \* per consumer: stop_consumers has been called
    writers,           \* screen-time merges in progress (one per service instance)
    merged,            \* screen-time events whose merge has written the document
    pending,           \* market events not yet merged (cache merge specifications)
    inflight,          \* B: per stream, messages pulled and not resolved (leased) and
                       \*    _process_*_data tasks created and not finished (processing)
    sessions,          \* Firestore collection sessions: sessionId -> document
    response,          \* what the last authentication or ingestion request answered
    clock,             \* time.time() of the market data service, in seconds
    call_timestamps,   \* MarketDataService.call_timestamps
    api_calls,         \* times at which requests.get was sent upstream (history)
    bridge             \* the ActivityWatch bridge: position of start_bridge (pc),
                       \*    screentime_buffer, and history: whether the WebSocket
                       \*    failed, events received, POSTs submitted with their answer

pipeVars  == <<msgs, queue, dlv, tasks>>
storeVars == <<archive, market_data, price_history, screentime_daily, screentime_data>>
lifeVars  == <<subs, running, loops, consumer_tasks, stop_requested>>
mergeVars == <<writers, merged, pending>>
flowVars  == <<inflight>>
authVars  == <<sessions, response>>
svcVars   == <<clock, call_timestamps, api_calls, bridge>>
vars == <<msgs, queue, dlv, tasks, archive, market_data, price_history,
          screentime_daily, screentime_data, subs, running, loops,
          consumer_tasks, stop_requested, writers, merged, pending,
          inflight, sessions, response, clock, call_timestamps, api_calls,
          bridge>>

(***************************************************************************)
(* Bounds of the model.                                                    *)
(***************************************************************************)
MaxMsgs == 2        \* messages published in a behaviour
MaxDeliveries == 2  \* deliveries (first deliveries and redeliveries) in a behaviour
MaxStarts == 2      \* calls of start_consumers on one PubSubConsumer
MaxSubs == 2        \* streaming pulls one consumer holds open on one stream
MaxMerges == 4      \* screen-time merges in a behaviour
Instances == 2      \* service processes that write the same Firestore documents
MaxTicks == 150     \* market ticks fed to one symbol, timestamps increasing
NumEvents == 5      \* market events of one symbol merged in any order
MaxFails == 2       \* consecutive failures of subscribe that one loop counts
MaxTasks == 2       \* B: _process_*_data tasks of one stream unfinished at once
MaxLoaded == 1      \* streams that have messages in flight at the same time
MaxSessions == 2    \* session documents created in a behaviour

(***************************************************************************)
(* Constants of the program.                                               *)
(***************************************************************************)
HistoryKeep == 100  \* "keep only last 100" price_history documents
PollDelay == 1      \* B: asyncio.sleep(1) after subscribe returned
RetryDelay == 5     \* B: asyncio.sleep(5) after subscribe raised

Streams == {"market", "screentime"}
B == "backend_main"
S == "stock_market_data"
Consumers == {B, S}

(***************************************************************************)
(* JSON objects are functions whose domain is the set of fields present.   *)
(* NonNumeric stands for any value that float() / int() reject.            *)
(***************************************************************************)
EmptyDict == [f \in {} |-> 0]
NonNumeric == -1
Get(d, f, default) == IF f \in DOMAIN d THEN d[f] ELSE default
IsNumeric(v) == v # NonNumeric

Min(a, b) == IF a <= b THEN a ELSE b

\* message.data of a delivery: text that json.loads(...decode('utf-8')) accepts,
\* giving `data`, or text that is no JSON document and makes it raise.
Undecodable == [json |-> FALSE, data |-> EmptyDict]
Decodable(e) == [json |-> TRUE, data |-> e]

MarketEvents ==
    { [symbol |-> "AAA", price |-> 10, timestamp |-> 1],
      [symbol |-> "AAA", price |-> 20, timestamp |-> 2, volume |-> 5],
      [symbol |-> "AAA", timestamp |-> 1],
      [price |-> 10, timestamp |-> 1],
      [symbol |-> "AAA", price |-> NonNumeric, timestamp |-> 1] }

ScreentimeEvents ==
    { [user_id |-> "u1", app_name |-> "Chrome", time_spent |-> 1, date |-> "2024-01-01"],
      [user_id |-> "u1", app_name |-> "Mail", time_spent |-> 2, date |-> "2024-01-01",
       category |-> "Work"],
      [user_id |-> "u1", app_name |-> "Chrome", time_spent |-> 1],
      [user_id |-> "u1", app_name |-> "Chrome", time_spent |-> 1, date |-> "01/02/2024"] }

\* datetime.strptime(date, '%Y-%m-%d') succeeds: of the dates that events carry
\* here, the ones written year-month-day
ParsesAsDate(date) == date \in {"2024-01-01", "2024-01-02"}

Payloads(stream) ==
    {Undecodable} \cup
    { Decodable(e) : e \in IF stream = "market" THEN MarketEvents ELSE ScreentimeEvents }

MarketRequired == {"symbol", "price", "timestamp"}
ScreentimeRequired == {"user_id", "app_name", "time_spent", "date"}
Required(stream) == IF stream = "market" THEN MarketRequired ELSE ScreentimeRequired

\* all(field in data for field in required_fields)
HasRequired(stream, data) == Required(stream) \subseteq DOMAIN data

(***************************************************************************)
(* Archive Sink: BigQuery streaming inserts.                               *)
(***************************************************************************)
\* bq_row of _process_market_data (processed_at, a wall-clock reading, is left out)
MarketRow(data) ==
    [symbol |-> data.symbol,
     price |-> data.price,
     volume |-> Get(data, "volume", 0),
     change |-> Get(data, "change", 0),
     change_percent |-> Get(data, "change_percent", 0),
     high |-> Get(data, "high", data.price),
     low |-> Get(data, "low", data.price),
     open |-> Get(data, "open", data.price),
     timestamp |-> data.timestamp,
     market |-> Get(data, "market", "NSE")]

\* bq_row of _process_screentime_data
ScreentimeRow(data) ==
    [user_id |-> data.user_id,
     app_name |-> data.app_name,
     category |-> Get(data, "category", "Other"),
     time_spent_minutes |-> data.time_spent,
     date |-> data.date,
     device_type |-> Get(data, "device_type", "mobile")]

\* an insert that overwrote the table with its rows
InsertReplacingTable(table, rows, src) ==
    [i \in 1..Len(rows) |-> [row |-> rows[i], src |-> src]]

\* insert_rows_json(table, rows) is called without row_ids: every call appends
\* its rows, whatever the table holds.  `src` is the delivery the rows come from
\* (history of the model, not a column of the table).
insert_rows_json(table, rows, src) ==
    table \o [i \in 1..Len(rows) |-> [row |-> rows[i], src |-> src]]

(***************************************************************************)
(* Cache Updater: Firestore documents.                                     *)
(***************************************************************************)
ServerTimestamp == "SERVER_TIMESTAMP"

\* DocumentReference.set(update, merge=True): the fields of `update` replace
\* those of the stored document, the other stored fields stay; the map field
\* `apps` is merged key by key.
SetMerge(update, old) ==
    [f \in DOMAIN update \cup DOMAIN old |->
        IF f \in DOMAIN update
        THEN IF f = "apps" /\ f \in DOMAIN old THEN update[f] @@ old[f] ELSE update[f]
        ELSE old[f]]

\* the stored document of a key, {} when there is none (doc.exists is false)
DocOf(coll, key) == IF key \in DOMAIN coll THEN coll[key] ELSE EmptyDict
\* a write that left the written document alone in its collection
PutDroppingOthers(coll, key, doc) == (key :> doc)
Put(coll, key, doc) == (key :> doc) @@ coll

\* update_data of _update_market_cache
MarketUpdateData(data) ==
    [symbol |-> data.symbol,
     current_price |-> data.price,
     volume |-> Get(data, "volume", 0),
     change |-> Get(data, "change", 0),
     change_percent |-> Get(data, "change_percent", 0),
     high |-> Get(data, "high", data.price),
     low |-> Get(data, "low", data.price),
     last_updated |-> ServerTimestamp,
     market |-> Get(data, "market", "NSE")]

HistoryEntry(data) ==
    [price |-> data.price, volume |-> Get(data, "volume", 0), timestamp |-> data.timestamp]

\* index of the first entry with the least timestamp (order_by('timestamp'))
OldestIndex(h) ==
    CHOOSE i \in 1..Len(h) :
        /\ \A j \in 1..Len(h) : h[i].timestamp <= h[j].timestamp
        /\ \A j \in 1..(i - 1) : h[j].timestamp > h[i].timestamp

RemoveAt(h, i) == SubSeq(h, 1, i - 1) \o SubSeq(h, i + 1, Len(h))

\* the documents in the order a query with order_by('timestamp') returns them
RECURSIVE OrderByTimestamp(_)
OrderByTimestamp(h) ==
    IF h = <<>> THEN <<>>
    ELSE <<h[OldestIndex(h)]>> \o OrderByTimestamp(RemoveAt(h, OldestIndex(h)))

\* batch.delete of the first k documents of order_by('timestamp').limit(k)
RECURSIVE DeleteOldest(_, _)
DeleteOldest(h, k) ==
    IF k <= 0 \/ h = <<>> THEN h ELSE DeleteOldest(RemoveAt(h, OldestIndex(h)), k - 1)

\* "Clean up old history (keep only last 100)": count is the number of documents
\* that order_by('timestamp').limit_to_last(100).stream() yields.
CleanUpHistory(h) ==
    LET count == Min(Len(h), HistoryKeep)
    IN  IF count > HistoryKeep THEN DeleteOldest(h, count - HistoryKeep) ELSE h

\* market_ref.set(update_data, merge=True)
MarketSet(md, data) ==
    Put(md, data.symbol, SetMerge(MarketUpdateData(data), DocOf(md, data.symbol)))

\* history_ref.add(...) followed by the clean-up
HistoryAdd(ph, data) ==
    Put(ph, data.symbol,
        CleanUpHistory(Append(DocOf(ph, data.symbol), HistoryEntry(data))))

\* f"{user_id}_{date}"
ScreentimeKey(data) == data.user_id \o "_" \o data.date

\* a merge that replaced the stored minutes instead of adding to them
AppsAfterReplacing(apps_data, data) ==
    (data.app_name :> [time_spent |-> data.time_spent,
                       category |-> Get(data, "category", "Other")]) @@ apps_data

\* "Update app time": accumulate on an app already present, else a new entry
AppsAfter(apps_data, data) ==
    IF data.app_name \in DOMAIN apps_data
    THEN [apps_data EXCEPT ![data.app_name].time_spent = @ + data.time_spent]
    ELSE (data.app_name :> [time_spent |-> data.time_spent,
                            category |-> Get(data, "category", "Other")]) @@ apps_data

\* sum(app['time_spent'] for app in apps_data.values())
RECURSIVE SumTime(_, _)
SumTime(apps_data, names) ==
    IF names = {} THEN 0
    ELSE LET a == CHOOSE x \in names : TRUE
         IN  apps_data[a].time_spent + SumTime(apps_data, names \ {a})
TotalTime(apps_data) == SumTime(apps_data, DOMAIN apps_data)

\* the document that a merge writes, from the snapshot `existing` it has read
DailyUpdate(existing, data) ==
    LET apps_data == AppsAfter(Get(existing, "apps", EmptyDict), data)
    IN  [user_id |-> data.user_id,
         date |-> data.date,
         total_time_minutes |-> TotalTime(apps_data),
         apps |-> apps_data,
         last_updated |-> ServerTimestamp]

\* daily_ref.set({...}, merge=True) onto the document stored at that moment
DailySet(sd, key, update) == Put(sd, key, SetMerge(update, DocOf(sd, key)))

\* _update_screentime_cache, run without interruption: get, compute, set
update_screentime_cache(sd, data) ==
    DailySet(sd, ScreentimeKey(data), DailyUpdate(DocOf(sd, ScreentimeKey(data)), data))

(***************************************************************************)
(* The broker (Pub/Sub).  Delivery is at-least-once: a message that was    *)
(* nacked is delivered again, and a message may be delivered again even    *)
(* after it was acked.                                                     *)
(***************************************************************************)
RECURSIVE SumLen(_)
SumLen(ss) == IF ss = <<>> THEN 0 ELSE Len(Head(ss)) + SumLen(Tail(ss))
Deliveries == SumLen(dlv)

Deliverable(m, c) ==
    /\ m \in queue
    /\ Deliveries < MaxDeliveries
    /\ subs[c][msgs[m].stream] > 0

\* a delivery as its callback leaves it; archived / row_errors / wrote_cache /
\* cached / failed record what the sinks did for it (history, updated as the
\* sinks act)
Delivery(m, c, res) ==
    [msg |-> m, consumer |-> c, res |-> res,
     archived |-> FALSE, row_errors |-> FALSE, wrote_cache |-> FALSE,
     cached |-> FALSE, failed |-> FALSE]

\* queue after the callback of m: ack removes it, nack leaves it for redelivery
Resolve(m, res) == IF res = "ack" THEN queue \ {m} ELSE queue

Publish(stream, payload) ==
    /\ Len(msgs) < MaxMsgs
    /\ msgs' = Append(msgs, [stream |-> stream, payload |-> payload])
    /\ queue' = queue \cup {Len(msgs) + 1}
    /\ dlv' = Append(dlv, <<>>)
    /\ UNCHANGED <<tasks, storeVars, lifeVars, mergeVars, flowVars, authVars, svcVars>>

Redeliver(m) ==
    /\ m \in 1..Len(msgs)
    /\ m \notin queue
    /\ Deliveries < MaxDeliveries
    /\ queue' = queue \cup {m}
    /\ UNCHANGED <<msgs, dlv, tasks, storeVars, lifeVars, mergeVars, flowVars, authVars, svcVars>>

(***************************************************************************)
(* Consumer B (backend_main).                                              *)
(***************************************************************************)
\* callback of _consume_market_data / _consume_screentime_data: decode, create
\* the processing task, ack; any exception (json.loads, or asyncio.create_task
\* called on a thread without a running event loop) nacks.  A task carries the
\* delivery it was created for and the rank of that delivery among all deliveries.
CallbackB(m) ==
    /\ Deliverable(m, B)
    /\ \E scheduled \in BOOLEAN :
         LET ok == msgs[m].payload.json /\ scheduled
             res == IF ok THEN "ack" ELSE "nack"
         IN  /\ dlv' = [dlv EXCEPT ![m] = Append(@, Delivery(m, B, res))]
             /\ queue' = Resolve(m, res)
             /\ tasks' = IF ok THEN tasks \cup {[d |-> <<m, Len(dlv[m]) + 1>>,
                                                  seq |-> Deliveries + 1,
                                                  pc |-> "process"]}
                         ELSE tasks
    /\ UNCHANGED <<msgs, storeVars, lifeVars, mergeVars, flowVars, authVars, svcVars>>

TaskStream(t) == msgs[t.d[1]].stream
TaskData(t) == msgs[t.d[1]].payload.data

\* float(data['price']) / int(data['time_spent']) while building bq_row
RowBuilds(stream, data) ==
    IF stream = "market" THEN IsNumeric(data.price) ELSE IsNumeric(data.time_spent)

BqRow(stream, data) == IF stream = "market" THEN MarketRow(data) ELSE ScreentimeRow(data)

\* _process_market_data / _process_screentime_data up to the end of
\* _insert_to_bigquery: an event without its required fields returns, an exception
\* while building bq_row ends the task; insert_rows_json inserts the row, or
\* returns errors for it, or raises: _insert_to_bigquery logs the errors or the
\* exception and returns normally either way.
ProcessB(t) ==
    /\ t \in tasks
    /\ t.pc = "process"
    /\ LET stream == TaskStream(t)
           data == TaskData(t)
       IN  IF ~HasRequired(stream, data) \/ ~RowBuilds(stream, data)
           THEN /\ tasks' = tasks \ {t}
                /\ UNCHANGED <<dlv, archive>>
           ELSE \E out \in {"ok", "errors", "raises"} :
                  /\ archive' = IF out = "ok"
                                THEN [archive EXCEPT ![stream] =
                                        insert_rows_json(@, <<BqRow(stream, data)>>, t.d)]
                                ELSE archive
                  /\ dlv' = [dlv EXCEPT ![t.d[1]][t.d[2]].archived = (out = "ok"),
                                        ![t.d[1]][t.d[2]].row_errors = (out = "errors"),
                                        ![t.d[1]][t.d[2]].failed = (out # "ok")]
                  /\ tasks' = (tasks \ {t}) \cup {[t EXCEPT !.pc = "cache"]}
    /\ UNCHANGED <<msgs, queue, market_data, price_history, screentime_daily,
                   screentime_data, lifeVars, mergeVars, flowVars, authVars, svcVars>>

\* _update_market_cache: set(update_data, merge=True), add to price_history,
\* clean up.  A Firestore call may raise: before the set (nothing written), or
\* after it (the document is written, the history is not); the exception is logged.
UpdateMarketCacheB(t) ==
    /\ t \in tasks
    /\ t.pc = "cache"
    /\ TaskStream(t) = "market"
    /\ \E fail \in {"none", "set", "add"} :
         /\ market_data' = IF fail = "set" THEN market_data
                           ELSE MarketSet(market_data, TaskData(t))
         /\ price_history' = IF fail = "none" THEN HistoryAdd(price_history, TaskData(t))
                             ELSE price_history
         /\ dlv' = [dlv EXCEPT ![t.d[1]][t.d[2]].wrote_cache = (fail # "set"),
                               ![t.d[1]][t.d[2]].cached = (fail = "none"),
                               ![t.d[1]][t.d[2]].failed = @ \/ (fail # "none")]
    /\ tasks' = tasks \ {t}
    /\ UNCHANGED <<msgs, queue, archive, screentime_daily, screentime_data,
                   lifeVars, mergeVars, flowVars, authVars, svcVars>>

\* _update_screentime_cache: get, compute, set(merge=True).  The body has no
\* await, so within the event loop of one process it runs without interruption.
\* A Firestore call may raise before the set (nothing written); logged.
UpdateScreentimeCacheB(t) ==
    /\ t \in tasks
    /\ t.pc = "cache"
    /\ TaskStream(t) = "screentime"
    /\ \E ok \in BOOLEAN :
         /\ screentime_daily' = IF ok THEN update_screentime_cache(screentime_daily, TaskData(t))
                                ELSE screentime_daily
         /\ dlv' = [dlv EXCEPT ![t.d[1]][t.d[2]].wrote_cache = ok,
                               ![t.d[1]][t.d[2]].cached = ok,
                               ![t.d[1]][t.d[2]].failed = @ \/ ~ok]
    /\ tasks' = tasks \ {t}
    /\ UNCHANGED <<msgs, queue, archive, market_data, price_history, screentime_data,
                   lifeVars, mergeVars, flowVars, authVars, svcVars>>

(***************************************************************************)
(* Consumer S (stock_market_data): the callback does everything itself.    *)
(***************************************************************************)
\* doc_ref.set(data): the document becomes the event as received
MarketSetS(md, data) == Put(md, Get(data, "symbol", "unknown"), data)

\* callback of S: decode; Firestore set; BigQuery insert (errors are logged); ack.
\* Any exception nacks: at decode, at the Firestore set, or at get_table /
\* insert_rows_json (after the cache was written).
CallbackS(m) ==
    /\ Deliverable(m, S)
    /\ LET stream == msgs[m].stream
           data == msgs[m].payload.data
           d == <<m, Len(dlv[m]) + 1>>
       IN  \E out \in {"decode_raises", "firestore_raises", "bigquery_raises",
                       "bigquery_errors", "ok"} :
             /\ (out = "decode_raises") = ~msgs[m].payload.json
             /\ LET wrote == out \in {"bigquery_raises", "bigquery_errors", "ok"}
                    res == IF out \in {"bigquery_errors", "ok"} THEN "ack" ELSE "nack"
                IN  /\ market_data' = IF wrote /\ stream = "market"
                                      THEN MarketSetS(market_data, data) ELSE market_data
                    /\ screentime_data' = IF wrote /\ stream = "screentime"
                                          THEN Append(screentime_data, data)
                                          ELSE screentime_data
                    /\ archive' = IF out = "ok"
                                  THEN [archive EXCEPT ![stream] =
                                          insert_rows_json(@, <<data>>, d)]
                                  ELSE archive
                    /\ dlv' = [dlv EXCEPT ![m] = Append(@,
                                 [Delivery(m, S, res) EXCEPT
                                    !.archived = (out = "ok"),
                                    !.row_errors = (out = "bigquery_errors"),
                                    !.wrote_cache = wrote,
                                    !.cached = wrote,
                                    !.failed = out \in {"firestore_raises",
                                                        "bigquery_raises",
                                                        "bigquery_errors"}])]
                    /\ queue' = Resolve(m, res)
    /\ UNCHANGED <<msgs, tasks, price_history, screentime_daily, lifeVars, mergeVars, flowVars, authVars, svcVars>>

(***************************************************************************)
(* The pipeline with both consumers subscribed.                            *)
(***************************************************************************)
StoresEmpty ==
    /\ archive = [s \in Streams |-> <<>>]
    /\ market_data = EmptyDict
    /\ price_history = EmptyDict
    /\ screentime_daily = EmptyDict
    /\ screentime_data = <<>>

MergeIdle ==
    /\ writers = EmptyDict
    /\ merged = <<>>
    /\ pending = {}

FlowIdle == inflight = [s \in Streams |-> [leased |-> 0, processing |-> 0]]

\* no session stored, no authentication request answered yet
AuthIdle ==
    /\ sessions = EmptyDict
    /\ response = [op |-> "none"]

\* MarketDataService() and ActivityWatchBridge() as constructed
SvcIdle ==
    /\ clock = 0
    /\ call_timestamps = <<>>
    /\ api_calls = <<>>
    /\ bridge = [pc |-> "created", ws_failed |-> FALSE, received |-> 0,
                 screentime_buffer |-> <<>>, posts |-> <<>>]

PipeIdle ==
    /\ msgs = <<>>
    /\ queue = {}
    /\ dlv = <<>>
    /\ tasks = {}

\* After start_consumers of both services: each loop of B has subscribed once; in S
\* the task holding the event loop has subscribed to its stream `pulled` (the
\* market task, or the screen-time task once the market task has ended).
Started(pulled) ==
    /\ subs = [c \in Consumers |->
                [s \in Streams |-> IF c = B \/ s = pulled THEN 1 ELSE 0]]
    /\ running = [c \in Consumers |-> TRUE]
    /\ loops = [s \in Streams |->
                 <<[pc |-> "looping", fails |-> 0, slept |-> PollDelay]>>]
    /\ consumer_tasks =
         << [stream |-> "market", pc |-> IF pulled = "market" THEN "pulling" ELSE "done"],
            [stream |-> "screentime",
             pc |-> IF pulled = "market" THEN "created" ELSE "pulling"] >>
    /\ stop_requested = [c \in Consumers |-> FALSE]

Init ==
    /\ PipeIdle
    /\ StoresEmpty
    /\ \E pulled \in Streams : Started(pulled)
    /\ MergeIdle
    /\ FlowIdle
    /\ AuthIdle
    /\ SvcIdle

Next ==
    \/ \E s \in Streams : \E p \in Payloads(s) : Publish(s, p)
    \/ \E m \in 1..Len(msgs) : Redeliver(m)
    \/ \E m \in 1..Len(msgs) : CallbackB(m)
    \/ \E t \in tasks : ProcessB(t)
    \/ \E t \in tasks : UpdateMarketCacheB(t)
    \/ \E t \in tasks : UpdateScreentimeCacheB(t)
    \/ \E m \in 1..Len(msgs) : CallbackS(m)

Spec == Init /\ [][Next]_vars

(***************************************************************************)
(* Consumer lifecycle.                                                     *)
(***************************************************************************)
\* A _consume_*_data task of B: where it is (created, looping, stopped), how many
\* times in a row subscribe has raised (counted up to MaxFails), and how long its
\* last asyncio.sleep was.  A task that has returned has no locals left.
LoopCreated == [pc |-> "created", fails |-> 0, slept |-> 0]
LoopStopped == [pc |-> "stopped", fails |-> 0, slept |-> 0]

\* B.start_consumers: sets _running and creates one task per stream
StartConsumersB ==
    /\ \A s \in Streams : Len(loops[s]) < MaxStarts
    /\ running' = [running EXCEPT ![B] = TRUE]
    /\ loops' = [s \in Streams |-> Append(loops[s], LoopCreated)]
    /\ UNCHANGED <<subs, consumer_tasks, stop_requested, pipeVars, storeVars, mergeVars, flowVars, authVars, svcVars>>

\* B.stop_consumers: clears _running, nothing else
StopConsumersB ==
    /\ running' = [running EXCEPT ![B] = FALSE]
    /\ stop_requested' = [stop_requested EXCEPT ![B] = TRUE]
    /\ UNCHANGED <<subs, loops, consumer_tasks, pipeVars, storeVars, mergeVars, flowVars, authVars, svcVars>>

\* one evaluation of `while self._running:` and of the body of the loop of
\* B._consume_*_data: subscribe (a new streaming pull, the previous future is
\* dropped, not cancelled) and sleep 1, or subscribe raises and sleep 5.
LoopB(s, i) ==
    /\ i \in 1..Len(loops[s])
    /\ loops[s][i].pc \in {"created", "looping"}
    /\ IF ~running[B]
       THEN /\ loops' = [loops EXCEPT ![s][i] = LoopStopped]
            /\ subs' = subs
       ELSE \E subscribed \in BOOLEAN :
              /\ subscribed => subs[B][s] < MaxSubs
              /\ subs' = IF subscribed THEN [subs EXCEPT ![B][s] = @ + 1] ELSE subs
              /\ loops' = [loops EXCEPT ![s][i] =
                    IF subscribed
                    THEN [pc |-> "looping", fails |-> 0, slept |-> PollDelay]
                    ELSE [pc |-> "looping", fails |-> Min(@.fails + 1, MaxFails),
                          slept |-> RetryDelay]]
    /\ UNCHANGED <<running, consumer_tasks, stop_requested, pipeVars, storeVars, mergeVars, flowVars, authVars, svcVars>>

\* S._consume_*_data calls streaming_pull_future.result() inside the coroutine:
\* while a task waits there, the event loop of S runs nothing else.
LoopFreeS == \A i \in 1..Len(consumer_tasks) : consumer_tasks[i].pc # "pulling"

\* S.start_consumers: returns when the clients cannot be initialised, else sets
\* running and appends one task per stream to consumer_tasks
StartConsumersS ==
    /\ LoopFreeS
    /\ Len(consumer_tasks) + 2 <= 2 * MaxStarts
    /\ \E initialized \in BOOLEAN :
         IF initialized
         THEN /\ running' = [running EXCEPT ![S] = TRUE]
              /\ consumer_tasks' = consumer_tasks \o
                    << [stream |-> "market", pc |-> "created"],
                       [stream |-> "screentime", pc |-> "created"] >>
         ELSE UNCHANGED <<running, consumer_tasks>>
    /\ UNCHANGED <<subs, loops, stop_requested, pipeVars, storeVars, mergeVars, flowVars, authVars, svcVars>>

\* S._consume_*_data from its start to streaming_pull_future.result(): subscribe
\* once; if that raises the coroutine logs and returns
ConsumeS(i) ==
    /\ LoopFreeS
    /\ i \in 1..Len(consumer_tasks)
    /\ consumer_tasks[i].pc = "created"
    /\ \E subscribed \in BOOLEAN :
         /\ subscribed => subs[S][consumer_tasks[i].stream] < MaxSubs
         /\ subs' = IF subscribed
                    THEN [subs EXCEPT ![S][consumer_tasks[i].stream] = @ + 1] ELSE subs
         /\ consumer_tasks' = [consumer_tasks EXCEPT
                                 ![i].pc = IF subscribed THEN "pulling" ELSE "done"]
    /\ UNCHANGED <<running, loops, stop_requested, pipeVars, storeVars, mergeVars, flowVars, authVars, svcVars>>

\* streaming_pull_future.result() raises (the broker connection fails): the
\* future is cancelled, the error logged, and the coroutine returns
BrokerErrorS(i) ==
    /\ i \in 1..Len(consumer_tasks)
    /\ consumer_tasks[i].pc = "pulling"
    /\ subs' = [subs EXCEPT ![S][consumer_tasks[i].stream] = @ - 1]
    /\ consumer_tasks' = [consumer_tasks EXCEPT ![i].pc = "done"]
    /\ UNCHANGED <<running, loops, stop_requested, pipeVars, storeVars, mergeVars, flowVars, authVars, svcVars>>

\* S.stop_consumers: clears running, cancels the tasks that are not done (a task
\* that has not started yet ends cancelled), gathers them and clears the list
StopConsumersS ==
    /\ LoopFreeS
    /\ running' = [running EXCEPT ![S] = FALSE]
    /\ stop_requested' = [stop_requested EXCEPT ![S] = TRUE]
    /\ consumer_tasks' = <<>>
    /\ UNCHANGED <<subs, loops, pipeVars, storeVars, mergeVars, flowVars, authVars, svcVars>>

\* both services constructed, start_consumers not yet called
InitLife ==
    /\ PipeIdle
    /\ StoresEmpty
    /\ subs = [c \in Consumers |-> [s \in Streams |-> 0]]
    /\ running = [c \in Consumers |-> FALSE]
    /\ loops = [s \in Streams |-> <<>>]
    /\ consumer_tasks = <<>>
    /\ stop_requested = [c \in Consumers |-> FALSE]
    /\ MergeIdle
    /\ FlowIdle
    /\ AuthIdle
    /\ SvcIdle

NextLife ==
    \/ StartConsumersB
    \/ StopConsumersB
    \/ \E s \in Streams : \E i \in 1..MaxStarts : LoopB(s, i)
    \/ StartConsumersS
    \/ \E i \in 1..(2 * MaxStarts) : ConsumeS(i)
    \/ \E i \in 1..(2 * MaxStarts) : BrokerErrorS(i)
    \/ StopConsumersS

SpecLife == InitLife /\ [][NextLife]_vars

(***************************************************************************)
(* Shutdown of B while messages flow: stop_consumers clears _running, each *)
(* loop ends at its next test of the flag; the streaming pulls that the    *)
(* loops opened are not cancelled and the tasks created by the callbacks   *)
(* are not awaited.                                                        *)
(***************************************************************************)
InitDrain ==
    /\ PipeIdle
    /\ StoresEmpty
    /\ Started("market")
    /\ MergeIdle
    /\ FlowIdle
    /\ AuthIdle
    /\ SvcIdle

NextDrain ==
    \/ \E s \in Streams : \E p \in Payloads(s) : Publish(s, p)
    \/ \E m \in 1..Len(msgs) : CallbackB(m)
    \/ \E t \in tasks : ProcessB(t)
    \/ \E t \in tasks : UpdateMarketCacheB(t)
    \/ \E t \in tasks : UpdateScreentimeCacheB(t)
    \/ StopConsumersB
    \/ \E s \in Streams : \E i \in 1..MaxStarts : LoopB(s, i)

SpecDrain == InitDrain /\ [][NextDrain]_vars

(***************************************************************************)
(* The screen-time merge on its own.                                       *)
(***************************************************************************)
MergeEvents ==
    { [user_id |-> "u1", app_name |-> "Chrome", time_spent |-> 1, date |-> "2024-01-01"],
      [user_id |-> "u1", app_name |-> "Mail", time_spent |-> 2, date |-> "2024-01-01",
       category |-> "Work"],
      [user_id |-> "u1", app_name |-> "Chrome", time_spent |-> 1, date |-> "2024-01-02"] }

MergesStarted == Len(merged) + Cardinality(DOMAIN writers)

\* an entry of `merged`: the event, with the function that wrote the cache for it
CacheUpdater == "PubSubConsumer._update_cache"
Route == "ingest_screen_time_data"
WrittenBy(data, writer) == ("by" :> writer) @@ data

\* _update_screentime_cache as one process runs it: the coroutine has no await
\* between daily_ref.get() and daily_ref.set(), so the merges of one event loop
\* follow one another.
ConsumerMerge(data) ==
    /\ MergesStarted < MaxMerges
    /\ screentime_daily' = update_screentime_cache(screentime_daily, data)
    /\ merged' = Append(merged, WrittenBy(data, CacheUpdater))
    /\ UNCHANGED <<writers, pending, archive, market_data, price_history,
                   screentime_data, pipeVars, lifeVars, flowVars, authVars, svcVars>>

\* ingest_screen_time_data (POST /screentime/ingest): the same get, accumulate,
\* sum and set(merge=True) on screentime_daily, for a body whose date parses
IngestRoute(data) ==
    /\ MergesStarted < MaxMerges
    /\ screentime_daily' =
         DailySet(screentime_daily, ScreentimeKey(data),
                  DailyUpdate(DocOf(screentime_daily, ScreentimeKey(data)), data))
    /\ merged' = Append(merged, WrittenBy(data, Route))
    /\ UNCHANGED <<writers, pending, archive, market_data, price_history,
                   screentime_data, pipeVars, lifeVars, flowVars, authVars, svcVars>>

InitMerge ==
    /\ PipeIdle
    /\ StoresEmpty
    /\ Started("market")
    /\ MergeIdle
    /\ FlowIdle
    /\ AuthIdle
    /\ SvcIdle

NextSeq ==
    \/ \E e \in MergeEvents : ConsumerMerge(e)
    \/ \E e \in MergeEvents : IngestRoute(e)

SpecSeq == InitMerge /\ [][NextSeq]_vars

\* The same merge in several processes that share the Firestore documents (more
\* than one instance of the service, each with its consumer and its ingest
\* route): process w reads the document ...
MergeRead(w, data) ==
    /\ w \notin DOMAIN writers
    /\ MergesStarted < MaxMerges
    /\ writers' = (w :> [data |-> data,
                         existing |-> DocOf(screentime_daily, ScreentimeKey(data))])
                  @@ writers
    /\ UNCHANGED <<merged, pending, storeVars, pipeVars, lifeVars, flowVars, authVars, svcVars>>

\* ... and later sets what it computed from the snapshot it had read
MergeWrite(w) ==
    /\ w \in DOMAIN writers
    /\ screentime_daily' =
         DailySet(screentime_daily, ScreentimeKey(writers[w].data),
                  DailyUpdate(writers[w].existing, writers[w].data))
    /\ merged' = Append(merged, WrittenBy(writers[w].data, CacheUpdater))
    /\ writers' = [x \in DOMAIN writers \ {w} |-> writers[x]]
    /\ UNCHANGED <<pending, archive, market_data, price_history, screentime_data,
                   pipeVars, lifeVars, flowVars, authVars, svcVars>>

NextScreen ==
    \/ \E w \in 1..Instances : \E e \in MergeEvents : MergeRead(w, e)
    \/ \E w \in 1..Instances : MergeWrite(w)

SpecScreen == InitMerge /\ [][NextScreen]_vars

(***************************************************************************)
(* The market cache merge on its own.                                      *)
(***************************************************************************)
\* _update_market_cache when no Firestore call raises
update_market_cache(data) ==
    /\ market_data' = MarketSet(market_data, data)
    /\ price_history' = HistoryAdd(price_history, data)
    /\ merged' = Append(merged, WrittenBy(data, CacheUpdater))

Tick(i) == [symbol |-> "AAA", price |-> 100 + i, timestamp |-> i, volume |-> i]

\* the next tick of the feed is merged
MergeNext ==
    /\ pending # <<>>
    /\ update_market_cache(Head(pending))
    /\ pending' = Tail(pending)
    /\ UNCHANGED <<writers, archive, screentime_daily, screentime_data, pipeVars, lifeVars, flowVars, authVars, svcVars>>

InitRetention ==
    /\ PipeIdle
    /\ StoresEmpty
    /\ Started("market")
    /\ writers = EmptyDict
    /\ merged = <<>>
    /\ pending = [i \in 1..MaxTicks |-> Tick(i)]
    /\ FlowIdle
    /\ AuthIdle
    /\ SvcIdle

SpecRetention == InitRetention /\ [][MergeNext]_vars

\* any of the events still pending is merged
MergeAny(i) ==
    /\ i \in 1..Len(pending)
    /\ update_market_cache(pending[i])
    /\ pending' = RemoveAt(pending, i)
    /\ UNCHANGED <<writers, archive, screentime_daily, screentime_data, pipeVars, lifeVars, flowVars, authVars, svcVars>>

InitOrder ==
    /\ PipeIdle
    /\ StoresEmpty
    /\ Started("market")
    /\ writers = EmptyDict
    /\ merged = <<>>
    /\ pending = [i \in 1..NumEvents |-> Tick(i)]
    /\ FlowIdle
    /\ AuthIdle
    /\ SvcIdle

NextOrder == \E i \in 1..NumEvents : MergeAny(i)

SpecOrder == InitOrder /\ [][NextOrder]_vars

(***************************************************************************)
(* Flow control of B: how many messages are in flight.                     *)
(***************************************************************************)
\* FlowControl(max_messages=1000) for market, FlowControl(max_messages=500) for
\* screen-time: a streaming pull holds at most that many unresolved messages
FlowControl(s) == IF s = "market" THEN 1000 ELSE 500

Busy(s) == inflight[s].leased > 0 \/ inflight[s].processing > 0

\* the broker hands a message to one of B's streaming pulls on s: each call of
\* subscribe opened a pull with a flow-control window of its own
PullB(s) ==
    /\ inflight[s].leased < subs[B][s] * FlowControl(s)
    /\ Cardinality({o \in Streams : o = s \/ Busy(o)}) <= MaxLoaded
    /\ inflight' = [inflight EXCEPT ![s].leased = @ + 1]
    /\ UNCHANGED <<pipeVars, storeVars, lifeVars, mergeVars, authVars, svcVars>>

\* the callback of B runs for a leased message: ack after create_task (the task
\* is then pending in the event loop), nack on an exception; either releases the
\* message from the flow-control window
CallbackDoneB(s) ==
    /\ inflight[s].leased > 0
    /\ \E created \in BOOLEAN :
         /\ created => inflight[s].processing < MaxTasks
         /\ inflight' = [inflight EXCEPT
                           ![s].leased = @ - 1,
                           ![s].processing = IF created THEN @ + 1 ELSE @]
    /\ UNCHANGED <<pipeVars, storeVars, lifeVars, mergeVars, authVars, svcVars>>

\* a _process_*_data task has finished (archive insert and cache update done)
TaskDoneB(s) ==
    /\ inflight[s].processing > 0
    /\ inflight' = [inflight EXCEPT ![s].processing = @ - 1]
    /\ UNCHANGED <<pipeVars, storeVars, lifeVars, mergeVars, authVars, svcVars>>

\* B is running and each of its loops has called subscribe n times
InitPressure ==
    /\ PipeIdle
    /\ StoresEmpty
    /\ MergeIdle
    /\ FlowIdle
    /\ AuthIdle
    /\ SvcIdle
    /\ \E n \in 1..MaxSubs :
         subs = [c \in Consumers |-> [s \in Streams |-> IF c = B THEN n ELSE 0]]
    /\ running = [c \in Consumers |-> c = B]
    /\ loops = [s \in Streams |->
                 <<[pc |-> "looping", fails |-> 0, slept |-> PollDelay]>>]
    /\ consumer_tasks = <<>>
    /\ stop_requested = [c \in Consumers |-> FALSE]

NextPressure ==
    \/ \E s \in Streams : PullB(s)
    \/ \E s \in Streams : CallbackDoneB(s)
    \/ \E s \in Streams : TaskDoneB(s)

SpecPressure == InitPressure /\ [][NextPressure]_vars

(***************************************************************************)
(* Sessions: the auth routes and get_current_user of both services, on the *)
(* Firestore collection `sessions`.  The sessionId of the k-th stored      *)
(* session is k; UnknownToken stands for every token that has no document  *)
(* (never issued, or issued by a login of S that could not save it).       *)
(* `expired` of a document says that the clock has passed its expiresAt;   *)
(* `told_logout` that a logout of the session answered "Logout successful" *)
(* (history of the model, not a stored field).                             *)
(***************************************************************************)
UnknownToken == 0
Tokens == 0..MaxSessions

Exists(tok) == tok \in DOMAIN sessions
\* session_data.get('active', False)
Active(tok) == Exists(tok) /\ sessions[tok].active
Expired(tok) == Exists(tok) /\ sessions[tok].expired

\* session_data of login
SessionData(id) == [sessionId |-> id, active |-> TRUE, expired |-> FALSE,
                    told_logout |-> FALSE]

\* the answer of a request, with what the store held for the token at that time
Answer(service, op, tok, accepted) ==
    [service |-> service, op |-> op, token |-> tok, accepted |-> accepted,
     exists |-> Exists(tok), active |-> Active(tok), expired |-> Expired(tok),
     logged_out |-> Exists(tok) /\ sessions[tok].told_logout]

\* B login, for a whitelisted phone number that the MCP server accepts: the
\* session document is stored (a Firestore exception answers 500, no session)
LoginB ==
    /\ Cardinality(DOMAIN sessions) < MaxSessions
    /\ LET id == Cardinality(DOMAIN sessions) + 1
       IN  /\ sessions' = Put(sessions, id, SessionData(id))
           /\ response' = [Answer(B, "login", id, TRUE) EXCEPT !.exists = TRUE,
                                                               !.active = TRUE]
    /\ UNCHANGED <<pipeVars, storeVars, lifeVars, mergeVars, flowVars, svcVars>>

\* S login: the session is stored when Firestore is available and set() does
\* not raise; the login answers with a session_id either way
LoginS ==
    /\ Cardinality(DOMAIN sessions) < MaxSessions
    /\ \E saved \in BOOLEAN :
         LET id == Cardinality(DOMAIN sessions) + 1
         IN  IF saved
             THEN /\ sessions' = Put(sessions, id, SessionData(id))
                  /\ response' = [Answer(S, "login", id, TRUE) EXCEPT !.exists = TRUE,
                                                                      !.active = TRUE]
             ELSE /\ sessions' = sessions
                  /\ response' = Answer(S, "login", UnknownToken, TRUE)
    /\ UNCHANGED <<pipeVars, storeVars, lifeVars, mergeVars, flowVars, svcVars>>

\* B logout: 404 when there is no document, else update active to False
LogoutB(tok) ==
    /\ sessions' = IF Exists(tok)
                   THEN [sessions EXCEPT ![tok].active = FALSE, ![tok].told_logout = TRUE]
                   ELSE sessions
    /\ response' = Answer(B, "logout", tok, Exists(tok))
    /\ UNCHANGED <<pipeVars, storeVars, lifeVars, mergeVars, flowVars, svcVars>>

\* S logout: the update is tried when Firestore is available; the 404 for a
\* missing document and every Firestore exception are caught by the inner
\* `except Exception` and logged; the answer is "Logout successful" in all cases
LogoutS(tok) ==
    /\ \E updated \in BOOLEAN :
         /\ updated => Exists(tok)
         /\ sessions' = IF Exists(tok)
                        THEN [sessions EXCEPT ![tok].active = IF updated THEN FALSE ELSE @,
                                              ![tok].told_logout = TRUE]
                        ELSE sessions
    /\ response' = Answer(S, "logout", tok, TRUE)
    /\ UNCHANGED <<pipeVars, storeVars, lifeVars, mergeVars, flowVars, svcVars>>

\* B verify_session: valid only for a document that is active and not expired; an
\* expired one is deactivated; a Firestore exception answers valid False
VerifyB(tok) ==
    /\ \E raised \in BOOLEAN :
         /\ sessions' = IF ~raised /\ Active(tok) /\ Expired(tok)
                        THEN [sessions EXCEPT ![tok].active = FALSE]
                        ELSE sessions
         /\ response' = Answer(B, "verify", tok,
                                ~raised /\ Active(tok) /\ ~Expired(tok))
    /\ UNCHANGED <<pipeVars, storeVars, lifeVars, mergeVars, flowVars, svcVars>>

\* S verify_session: the HTTPExceptions raised for a missing, inactive or expired
\* session are caught by the inner `except Exception`, like every Firestore
\* exception; what follows answers valid True
VerifyS(tok) ==
    /\ response' = Answer(S, "verify", tok, TRUE)
    /\ sessions' = sessions
    /\ UNCHANGED <<pipeVars, storeVars, lifeVars, mergeVars, flowVars, svcVars>>

\* B get_current_user: 401 unless a document with that sessionId exists and is
\* active (expiresAt is not looked at)
GetCurrentUserB(tok) ==
    /\ \E raised \in BOOLEAN :
         response' = Answer(B, "get_current_user", tok, ~raised /\ Active(tok))
    /\ sessions' = sessions
    /\ UNCHANGED <<pipeVars, storeVars, lifeVars, mergeVars, flowVars, svcVars>>

\* S get_current_user: the 401s raised inside the inner try are caught by its
\* `except Exception`; the function then returns the basic session
\* {"sessionId": token, "phoneNumber": "test-user", "active": True}
GetCurrentUserS(tok) ==
    /\ response' = Answer(S, "get_current_user", tok, TRUE)
    /\ sessions' = sessions
    /\ UNCHANGED <<pipeVars, storeVars, lifeVars, mergeVars, flowVars, svcVars>>

\* the clock passes expiresAt of a session (24 hours after its login)
Expire(tok) ==
    /\ Exists(tok)
    /\ ~sessions[tok].expired
    /\ sessions' = [sessions EXCEPT ![tok].expired = TRUE]
    /\ UNCHANGED <<response, pipeVars, storeVars, lifeVars, mergeVars, flowVars, svcVars>>

InitSession ==
    /\ PipeIdle
    /\ StoresEmpty
    /\ Started("market")
    /\ MergeIdle
    /\ FlowIdle
    /\ AuthIdle
    /\ SvcIdle

NextSession ==
    \/ LoginB
    \/ LoginS
    \/ \E tok \in Tokens : LogoutB(tok)
    \/ \E tok \in Tokens : LogoutS(tok)
    \/ \E tok \in Tokens : VerifyB(tok)
    \/ \E tok \in Tokens : VerifyS(tok)
    \/ \E tok \in Tokens : GetCurrentUserB(tok)
    \/ \E tok \in Tokens : GetCurrentUserS(tok)
    \/ \E tok \in Tokens : Expire(tok)

SpecSession == InitSession /\ [][NextSession]_vars

(***************************************************************************)
(* MarketDataService (stock_market_data): rate limiting of the upstream    *)
(* API.  Times are whole seconds.  get_quote, get_intraday_data and        *)
(* get_daily_data call _check_rate_limit and then requests.get; time.sleep *)
(* blocks the event loop, so no other call runs during the sleep.          *)
(***************************************************************************)
calls_per_minute == 5
RateWindow == 60
MaxCalls == 11      \* calls of the service in a behaviour
\* the moments at which callers call the service
CallInstants == {0, 1, RateWindow, RateWindow + 1}

\* [ts for ts in self.call_timestamps if current_time - ts < 60]
RecentCalls(current_time) ==
    SelectSeq(call_timestamps, LAMBDA ts : current_time - ts < RateWindow)

\* sleep_time of _check_rate_limit called at current_time (0 when it does not sleep)
SleepTime(current_time) ==
    LET recent == RecentCalls(current_time)
    IN  IF Len(recent) >= calls_per_minute
        THEN LET sleep_time == RateWindow - (current_time - recent[1])
             IN  IF sleep_time > 0 THEN sleep_time ELSE 0
        ELSE 0

\* _check_rate_limit followed by requests.get: the timestamp appended is the
\* time read before the sleep, the request leaves after the sleep
RateLimitedGet ==
    /\ Len(api_calls) < MaxCalls
    /\ call_timestamps' = Append(RecentCalls(clock), clock)
    /\ clock' = clock + SleepTime(clock)
    /\ api_calls' = Append(api_calls, clock')
    /\ UNCHANGED <<bridge, pipeVars, storeVars, lifeVars, mergeVars, flowVars, authVars>>

get_quote == RateLimitedGet
get_intraday_data == RateLimitedGet
get_daily_data == RateLimitedGet

\* time passes until the next moment at which a caller calls
Elapse ==
    /\ \E t \in CallInstants : t > clock /\ clock' = t
    /\ UNCHANGED <<call_timestamps, api_calls, bridge, pipeVars, storeVars,
                   lifeVars, mergeVars, flowVars, authVars>>

InitRate ==
    /\ PipeIdle
    /\ StoresEmpty
    /\ Started("market")
    /\ MergeIdle
    /\ FlowIdle
    /\ AuthIdle
    /\ SvcIdle

NextRate ==
    \/ get_quote
    \/ get_intraday_data
    \/ get_daily_data
    \/ Elapse

SpecRate == InitRate /\ [][NextRate]_vars

(***************************************************************************)
(* The ActivityWatch bridge (stock_market_data/activitywatch_bridge.py).   *)
(* pc of the bridge: "created", "connecting" (start_bridge awaits          *)
(* connect_to_activitywatch, not yet connected), "listening" (inside       *)
(* `async for message in websocket`), "polling" (inside periodic_sync),    *)
(* "returned" (start_bridge has returned).                                 *)
(***************************************************************************)
batch_size == 10
MaxEvents == 11     \* WebSocket messages the bridge receives in a behaviour
EventTypes == {"currentwindow", "afkstatus"}
HTTP_OK == 200
\* requests.post raised (timeout, connection refused): there is no status code
RequestError == 0
\* what a POST to the endpoint ends with: a status code, or a request error
PostAnswers == {HTTP_OK, 500, RequestError}

\* `async with <Future> as response`: the Future that run_in_executor returns has
\* no __aenter__ / __aexit__, so entering the block raises TypeError; the POST was
\* already handed to the executor when the Future was made
AsyncWithEnters == FALSE

\* send_to_pubsub on buffer, the POST being answered with `answer`: the buffer it
\* leaves. The body of the `async with` clears the buffer on status 200.
BufferAfterSend(buffer, answer) ==
    IF AsyncWithEnters /\ answer = HTTP_OK THEN <<>> ELSE buffer

\* the POSTs after send_to_pubsub on buffer (none for an empty buffer)
PostsAfterSend(posts, buffer, answer) ==
    IF buffer = <<>> THEN posts
    ELSE Append(posts, [events |-> buffer, answer |-> answer])

start_bridge ==
    /\ bridge.pc = "created"
    /\ bridge' = [bridge EXCEPT !.pc = "connecting"]
    /\ UNCHANGED <<clock, call_timestamps, api_calls, pipeVars, storeVars,
                   lifeVars, mergeVars, flowVars, authVars>>

\* websockets.connect succeeded and the subscribe message was sent
Connected ==
    /\ bridge.pc = "connecting"
    /\ bridge' = [bridge EXCEPT !.pc = "listening"]
    /\ UNCHANGED <<clock, call_timestamps, api_calls, pipeVars, storeVars,
                   lifeVars, mergeVars, flowVars, authVars>>

\* connect_to_activitywatch: its `except Exception` catches the failure of
\* websockets.connect, of send and of the message loop, logs it and returns False;
\* no exception leaves the function
ConnectRaises == FALSE

\* start_bridge after connect_to_activitywatch has ended:
\* `except Exception: await self.periodic_sync()`, else it returns
AfterConnect == IF ConnectRaises THEN "polling" ELSE "returned"

\* the WebSocket connection fails: it cannot be opened, or it breaks while listening
WebSocketFails ==
    /\ bridge.pc \in {"connecting", "listening"}
    /\ bridge' = [bridge EXCEPT !.pc = AfterConnect, !.ws_failed = TRUE]
    /\ UNCHANGED <<clock, call_timestamps, api_calls, pipeVars, storeVars,
                   lifeVars, mergeVars, flowVars, authVars>>

\* process_activitywatch_event for one WebSocket message: append to the buffer,
\* send_to_pubsub when the buffer holds batch_size events or more
process_activitywatch_event ==
    /\ bridge.pc = "listening"
    /\ bridge.received < MaxEvents
    /\ \E type \in EventTypes, answer \in PostAnswers :
         LET event == [id |-> bridge.received + 1, event_type |-> type]
             buffer == Append(bridge.screentime_buffer, event)
             full == Len(buffer) >= batch_size
         IN  /\ ~full => answer = HTTP_OK
             /\ bridge' = [bridge EXCEPT
                    !.received = @ + 1,
                    !.screentime_buffer =
                        IF full THEN BufferAfterSend(buffer, answer) ELSE buffer,
                    !.posts = IF full THEN PostsAfterSend(@, buffer, answer) ELSE @]
    /\ UNCHANGED <<clock, call_timestamps, api_calls, pipeVars, storeVars,
                   lifeVars, mergeVars, flowVars, authVars>>

InitBridge ==
    /\ PipeIdle
    /\ StoresEmpty
    /\ Started("market")
    /\ MergeIdle
    /\ FlowIdle
    /\ AuthIdle
    /\ SvcIdle

NextBridge ==
    \/ start_bridge
    \/ Connected
    \/ WebSocketFails
    \/ process_activitywatch_event

\* asyncio runs start_bridge to its end: a step that can be taken is taken
SpecBridge == InitBridge /\ [][NextBridge]_vars /\ WF_vars(NextBridge)

(***************************************************************************)
(* The ingestion endpoints of stock_market_data (app/routes/pubsub.py):    *)
(* POST /pubsub/market and POST /pubsub/screentime publish to the broker   *)
(* what the consumers then receive.                                        *)
(***************************************************************************)
MaxBatch == 2       \* events in one ScreentimeBatch

\* request bodies that pydantic accepts as MarketDataEvent
MarketDataEvents ==
    { [symbol |-> "AAA", price |-> 10, volume |-> 5, change |-> 1,
       change_percent |-> 1, timestamp |-> 1, source |-> "feed"],
      [symbol |-> "AAA", price |-> 20, volume |-> 0, change |-> 0,
       change_percent |-> 0, timestamp |-> 2, source |-> "feed"] }

\* events that pydantic accepts as ScreentimeEvent, as the bridge builds them
BatchEvents ==
    { [device_id |-> "laptop_1", user_id |-> "u1", event_type |-> "currentwindow",
       timestamp |-> 1, source |-> "activitywatch",
       data |-> [app |-> "Chrome", title |-> "Docs", duration |-> 60]],
      [device_id |-> "laptop_1", user_id |-> "u1", event_type |-> "afkstatus",
       timestamp |-> 2, source |-> "activitywatch",
       data |-> [status |-> "afk"]] }

\* request.events of the ScreentimeBatch bodies
Batches == UNION { [1..n -> BatchEvents] : n \in 0..MaxBatch }

UtcNow == "utcnow"

\* _categorize_app, for the application names above
categorize_app(app_name) ==
    IF app_name \in {"Chrome", "Firefox"} THEN "browsing" ELSE "other"

\* enriched_data of receive_market_data
EnrichedMarket(request) ==
    [symbol |-> request.symbol,
     price |-> request.price,
     volume |-> request.volume,
     change |-> request.change,
     change_percent |-> request.change_percent,
     timestamp |-> request.timestamp,
     source |-> request.source,
     received_at |-> UtcNow]

\* enriched_data of receive_screentime_data
EnrichedScreentime(event) ==
    [device_id |-> event.device_id,
     user_id |-> event.user_id,
     event_type |-> event.event_type,
     timestamp |-> event.timestamp,
     app_name |-> Get(event.data, "app", "unknown"),
     title |-> Get(event.data, "title", ""),
     duration |-> Get(event.data, "duration", 0),
     category |-> categorize_app(Get(event.data, "app", "")),
     source |-> event.source,
     received_at |-> UtcNow]

\* the messages that publish_market_data / publish_screentime_data hand to the
\* broker for the events of one request: accepted[i] says that the publish of
\* event i returned True (False: clients unavailable, or publish raised)
RECURSIVE Published(_, _, _)
Published(stream, enriched, accepted) ==
    IF enriched = <<>> THEN <<>>
    ELSE (IF Head(accepted)
          THEN <<[stream |-> stream, payload |-> Decodable(Head(enriched))]>>
          ELSE <<>>)
         \o Published(stream, Tail(enriched), Tail(accepted))

\* the broker takes the messages of one request
Accept(published) ==
    /\ Len(msgs) + Len(published) <= MaxMsgs
    /\ msgs' = msgs \o published
    /\ queue' = queue \cup (Len(msgs) + 1 .. Len(msgs) + Len(published))
    /\ dlv' = dlv \o [i \in 1..Len(published) |-> <<>>]

\* the endpoint's answer: the return value of publish_* is not looked at and a
\* publish that raises is logged, so the answer is success in both cases
Processed(op, events, published) ==
    [op |-> op, success |-> TRUE, events |-> events, published |-> published]

receive_market_data ==
    /\ \E request \in MarketDataEvents, accepted \in BOOLEAN :
         LET published == Published("market", <<EnrichedMarket(request)>>, <<accepted>>)
         IN  /\ Accept(published)
             /\ response' = Processed("pubsub_market", 1, Len(published))
    /\ UNCHANGED <<sessions, tasks, storeVars, lifeVars, mergeVars, flowVars, svcVars>>

receive_screentime_data ==
    /\ \E events \in Batches :
       \E accepted \in [1..Len(events) -> BOOLEAN] :
         LET enriched == [i \in 1..Len(events) |-> EnrichedScreentime(events[i])]
             published == Published("screentime", enriched, accepted)
         IN  /\ Accept(published)
             /\ response' = Processed("pubsub_screentime", Len(events), Len(published))
    /\ UNCHANGED <<sessions, tasks, storeVars, lifeVars, mergeVars, flowVars, svcVars>>

InitIngest ==
    /\ PipeIdle
    /\ StoresEmpty
    /\ \E pulled \in Streams : Started(pulled)
    /\ MergeIdle
    /\ FlowIdle
    /\ AuthIdle
    /\ SvcIdle

NextIngest ==
    \/ receive_market_data
    \/ receive_screentime_data
    \/ \E m \in 1..Len(msgs) : CallbackB(m)
    \/ \E t \in tasks : ProcessB(t)
    \/ \E t \in tasks : UpdateMarketCacheB(t)
    \/ \E m \in 1..Len(msgs) : CallbackS(m)

SpecIngest == InitIngest /\ [][NextIngest]_vars

(***************************************************************************)
(* Properties.                                                             *)
(***************************************************************************)
AllDeliveries == {d \in (1..Len(msgs)) \X (1..MaxDeliveries) : d[2] <= Len(dlv[d[1]])}
D(d) == dlv[d[1]][d[2]]
StreamOf(m) == msgs[m].stream
EventOf(m) == msgs[m].payload.data

\* the payload decodes and has its required fields with numeric values
ValidMsg(m) ==
    /\ msgs[m].payload.json
    /\ HasRequired(StreamOf(m), EventOf(m))
    /\ RowBuilds(StreamOf(m), EventOf(m))
\* the payload decodes to an event without one of its required fields
LacksRequired(m) == msgs[m].payload.json /\ ~HasRequired(StreamOf(m), EventOf(m))
Malformed(m) == ~ValidMsg(m)

\* C1: a delivery of a valid event is acked only once both its archive append and
\* its cache merge have succeeded, and a delivery for which a sink failed is
\* nacked, not acked.
C1_AckOnlyAfterBothSinks ==
    \A d \in AllDeliveries :
        ValidMsg(d[1]) =>
            /\ D(d).res = "ack" => (D(d).archived /\ D(d).cached)
            /\ D(d).failed => D(d).res = "nack"

\* sum of time_spent of the merged events of one document key and app
RECURSIVE MergedSum(_, _, _)
MergedSum(evs, key, app) ==
    IF evs = <<>> THEN 0
    ELSE (IF ScreentimeKey(Head(evs)) = key /\ Head(evs).app_name = app
          THEN Head(evs).time_spent ELSE 0) + MergedSum(Tail(evs), key, app)

MergedKeys == {ScreentimeKey(merged[i]) : i \in 1..Len(merged)}
MergedApps(key) ==
    {merged[i].app_name : i \in {j \in 1..Len(merged) : ScreentimeKey(merged[j]) = key}}

\* every per-app total of every document is the sum of the merged minutes
PerAppTotalsExact ==
    \A key \in MergedKeys :
        /\ key \in DOMAIN screentime_daily
        /\ "apps" \in DOMAIN screentime_daily[key]
        /\ DOMAIN screentime_daily[key].apps = MergedApps(key)
        /\ \A app \in MergedApps(key) :
              screentime_daily[key].apps[app].time_spent = MergedSum(merged, key, app)

\* C2: when N merges of 1 minute each for one user+date+app, started concurrently
\* by the writers of the daily document, have all finished, the per-app total is
\* N: no increment is lost.
C2_NoLostIncrement == (writers = EmptyDict) => PerAppTotalsExact

\* the last n entries of a sequence
LastN(h, n) == IF Len(h) <= n THEN h ELSE SubSeq(h, Len(h) - n + 1, Len(h))
EntriesOf(evs) == [i \in 1..Len(evs) |-> HistoryEntry(evs[i])]

\* C3: after every market cache merge the price history of a symbol holds at most
\* 100 entries, the ones with the latest timestamps (after 150 ticks with
\* increasing timestamps: exactly the last 100).
C3_HistoryKeepsLast100 ==
    \A sym \in DOMAIN price_history :
        /\ Len(price_history[sym]) <= HistoryKeep
        /\ OrderByTimestamp(price_history[sym]) = LastN(EntriesOf(merged), HistoryKeep)

\* C4: a delivery of an event that lacks a required field writes nothing: no
\* archive row and no cache document comes from it.
C4_InvalidEventWritesNothing ==
    \A d \in AllDeliveries :
        LacksRequired(d[1]) => (~D(d).archived /\ ~D(d).wrote_cache)

RowsOf(m) == {i \in 1..Len(archive[StreamOf(m)]) : archive[StreamOf(m)][i].src[1] = m}

\* C5: however often the message of a valid event is delivered and processed,
\* the archive holds at most one row for the event (the rows of one message have
\* the same stream, natural key and timestamp).
C5_ArchiveIdempotent ==
    \A m \in 1..Len(msgs) : ValidMsg(m) => Cardinality(RowsOf(m)) <= 1

\* sum of the per-app totals of a document, app by app
RECURSIVE SumOfApps(_, _)
SumOfApps(apps_data, names) ==
    IF names = {} THEN 0
    ELSE LET a == CHOOSE x \in names : TRUE
         IN  apps_data[a].time_spent + SumOfApps(apps_data, names \ {a})

\* C6: after any sequence of screen-time merges applied one after another, every
\* per-app total is the sum of the time spent of the merged events of that app,
\* and the daily total of the document is the sum of its per-app totals.
C6_Accumulates ==
    /\ PerAppTotalsExact
    /\ \A key \in DOMAIN screentime_daily :
          screentime_daily[key].total_time_minutes =
              SumOfApps(screentime_daily[key].apps, DOMAIN screentime_daily[key].apps)

\* an app merged more than once next to another app of the same document
C6_Witness ==
    \E key \in DOMAIN screentime_daily :
        /\ Cardinality(DOMAIN screentime_daily[key].apps) >= 2
        /\ \E app \in DOMAIN screentime_daily[key].apps :
              /\ screentime_daily[key].apps[app].time_spent = 2
              /\ Cardinality({i \in 1..Len(merged) :
                                 /\ ScreentimeKey(merged[i]) = key
                                 /\ merged[i].app_name = app}) = 2
        /\ screentime_daily[key].total_time_minutes = 4

\* the merged event with the latest timestamp
Latest(evs) ==
    evs[CHOOSE i \in 1..Len(evs) : \A j \in 1..Len(evs) : evs[j].timestamp <= evs[i].timestamp]

\* C7: in whatever order a set of market events of one symbol is merged into an
\* empty cache, current is the event with the latest timestamp and the history
\* holds all the events, sorted by timestamp, capped at 100.
C7_OrderIndependent ==
    merged # <<>> =>
        LET sym == Latest(merged).symbol
        IN  /\ sym \in DOMAIN market_data
            /\ market_data[sym] = MarketUpdateData(Latest(merged))
            /\ OrderByTimestamp(price_history[sym]) =
                   LastN(OrderByTimestamp(EntriesOf(merged)), HistoryKeep)

\* C8: every delivery of a malformed payload is acked (and dropped), never nacked.
C8_MalformedAckedNeverNacked ==
    \A d \in AllDeliveries : Malformed(d[1]) => D(d).res = "ack"

\* C9: whatever fails while one message is decoded, validated or dispatched, its
\* consumer keeps pulling, and the delivery is resolved to ack when the message
\* is malformed and to nack when a sink failed on a well-formed one.
C9_FailureIsolation ==
    \A d \in AllDeliveries :
        /\ subs[D(d).consumer][StreamOf(d[1])] > 0
        /\ D(d).res \in {"ack", "nack"}
        /\ Malformed(d[1]) => D(d).res = "ack"
        /\ (~Malformed(d[1]) /\ D(d).failed) => D(d).res = "nack"

\* C10: a consumer loop has ended only if stop_consumers was called.
C10_StoppedOnlyOnShutdown ==
    /\ \A s \in Streams : \A i \in 1..Len(loops[s]) :
          loops[s][i].pc = "stopped" => stop_requested[B]
    /\ \A i \in 1..Len(consumer_tasks) :
          consumer_tasks[i].pc = "done" => stop_requested[S]

\* C11: when subscribe fails, the consumer loop retries it and waits longer after
\* each further failure in a row; a failure never ends the loop (a consumer task
\* does not finish while stop_consumers has not removed it).
C11_SubscribeRetriedWithBackoff ==
    [][ /\ \A s \in Streams : \A i \in 1..Len(loops[s]) :
              (loops[s][i].fails >= 1 /\ loops'[s][i].fails = loops[s][i].fails + 1)
                  => loops'[s][i].slept > loops[s][i].slept
        /\ \A i \in 1..Len(consumer_tasks) :
              (i \in DOMAIN consumer_tasks' /\ consumer_tasks[i].pc # "done")
                  => consumer_tasks'[i].pc # "done" ]_vars

\* C12: a delivery whose archive insert came back with an error for a row is
\* nacked, not acked.
C12_RowErrorNacks ==
    \A d \in AllDeliveries : D(d).row_errors => D(d).res = "nack"

\* C13: at every moment the messages of a stream that B has pulled and whose
\* processing has not finished number at most the flow-control window of the
\* stream.
C13_BackPressure ==
    \A s \in Streams : inflight[s].leased + inflight[s].processing <= FlowControl(s)

\* the consumer tasks of a stream that have been created and have not ended
LiveLoopsB(s) == {i \in 1..Len(loops[s]) : loops[s][i].pc \in {"created", "looping"}}
LiveTasksS(s) ==
    {i \in 1..Len(consumer_tasks) :
        consumer_tasks[i].stream = s /\ consumer_tasks[i].pc \in {"created", "pulling"}}

\* C14: whatever calls of start_consumers and stop_consumers were made, each
\* consumer has at most one live task per stream, and exactly one per stream
\* while it is started.
C14_OneTaskPerStream ==
    \A s \in Streams :
        /\ Cardinality(LiveLoopsB(s)) <= 1
        /\ running[B] => Cardinality(LiveLoopsB(s)) = 1
        /\ Cardinality(LiveTasksS(s)) <= 1
        /\ running[S] => Cardinality(LiveTasksS(s)) = 1

\* every loop that B started on the stream has ended
StoppedB(s) == loops[s] # <<>> /\ \A i \in 1..Len(loops[s]) : loops[s][i].pc = "stopped"

\* C15: once the loop of a stream is Stopped, no dispatch of the stream is still
\* in flight unless its message is unacked, and no later step writes a sink of
\* the stream.
C15_GracefulDrain ==
    [][ \A s \in Streams :
          StoppedB(s) =>
            /\ \A t \in tasks : TaskStream(t) = s => D(t.d).res # "ack"
            /\ archive'[s] = archive[s]
            /\ s = "market" => (market_data' = market_data /\ price_history' = price_history)
            /\ s = "screentime" => screentime_daily' = screentime_daily ]_vars

\* C16: a verification or an authenticated request is accepted only for a token
\* whose session document exists and is active, and never for a session whose
\* logout has answered with success.
C16_OnlyActiveSessionsAccepted ==
    (response.op \in {"verify", "get_current_user"} /\ response.accepted) =>
        (response.exists /\ response.active /\ ~response.logged_out)

KeyOf(t) ==
    IF TaskStream(t) = "market" THEN TaskData(t).symbol ELSE ScreentimeKey(TaskData(t))

\* C18: B does not reorder the events of one cache key: when the cache merge of a
\* task runs, no task of an earlier delivery of the same stream and key is still
\* waiting for its own merge.
C18_NoReorderPerKey ==
    [][ \A t \in tasks :
          (t.pc = "cache" /\ t \notin tasks') =>
              ~ \E u \in tasks :
                    /\ u.seq < t.seq
                    /\ ValidMsg(u.d[1])
                    /\ TaskStream(u) = TaskStream(t)
                    /\ KeyOf(u) = KeyOf(t) ]_vars

\* C19: a market cache document holds the fields of one event and nothing else:
\* it is what the merge of some delivered event writes into an empty document
\* (the event's values and the defaults), no field of an earlier event survives.
C19_WholesaleReplace ==
    \A sym \in DOMAIN market_data :
        \E m \in 1..Len(msgs) :
            /\ StreamOf(m) = "market"
            /\ msgs[m].payload.json
            /\ \/ market_data[sym] = EventOf(m)
               \/ ValidMsg(m) /\ market_data[sym] = MarketUpdateData(EventOf(m))

\* C20: there is one cache document per stream-key: a market document is stored
\* under the symbol it holds, a daily screen-time document under user_id + "_" +
\* date, and no two documents hold screen-time events of the same user and date.
C20_OneDocumentPerKey ==
    /\ \A k \in DOMAIN market_data :
          "symbol" \in DOMAIN market_data[k] => market_data[k].symbol = k
    /\ \A k \in DOMAIN screentime_daily :
          screentime_daily[k].user_id \o "_" \o screentime_daily[k].date = k
    /\ \A i, j \in 1..Len(screentime_data) :
          ( /\ HasRequired("screentime", screentime_data[i])
            /\ HasRequired("screentime", screentime_data[j])
            /\ ScreentimeKey(screentime_data[i]) = ScreentimeKey(screentime_data[j]) )
              => i = j

\* C21: a delivery of a screen-time event whose date is present and does not
\* parse as YYYY-MM-DD writes nothing: no archive row, no cache document.
C21_UnparsableDateRejected ==
    \A d \in AllDeliveries :
        ( /\ StreamOf(d[1]) = "screentime"
          /\ msgs[d[1]].payload.json
          /\ "date" \in DOMAIN EventOf(d[1])
          /\ ~ParsesAsDate(EventOf(d[1]).date) )
            => (~D(d).archived /\ ~D(d).wrote_cache)

\* C22: no step of the pipeline deletes a cache document: a document that exists
\* exists in the next state too, in market_data, in screentime_daily and in
\* screentime_data.
C22_NeverDeletesDocument ==
    [][ /\ DOMAIN market_data \subseteq DOMAIN market_data'
        /\ DOMAIN screentime_daily \subseteq DOMAIN screentime_daily'
        /\ DOMAIN screentime_data \subseteq DOMAIN screentime_data' ]_vars

\* two cache documents of one collection exist, the second written after the first
C22_Witness ==
    \/ Cardinality(DOMAIN market_data) >= 2
    \/ Cardinality(DOMAIN screentime_daily) >= 2

\* C23: the archive is append-only: in every step the rows of each stream stay
\* as they are, in their order, and rows are only added after them.
C23_ArchiveAppendOnly ==
    [][ \A s \in Streams :
          /\ Len(archive'[s]) >= Len(archive[s])
          /\ SubSeq(archive'[s], 1, Len(archive[s])) = archive[s] ]_vars

\* a second row was appended to a stream of the archive that already held one
C23_Witness == \E s \in Streams : Len(archive[s]) >= 2

\* C27: a verification or an authenticated request is never accepted for a
\* session whose expiresAt has passed, whether or not verify_session was called on
\* it before.
C27_ExpiredSessionNotAccepted ==
    (response.op \in {"verify", "get_current_user"} /\ response.accepted) =>
        ~response.expired

\* C28: per stream, a consumer holds at most one open streaming-pull subscription.
C28_OneOpenPullPerStream ==
    \A c \in Consumers : \A s \in Streams : subs[c][s] <= 1

\* C24: at most 5 upstream requests are sent within any 60-second window: no
\* request has 5 or more earlier requests less than 60 seconds before it.
C24_AtMostFivePerMinute ==
    \A i \in 1..Len(api_calls) :
        Cardinality({j \in 1..i : api_calls[i] - api_calls[j] < RateWindow})
            <= calls_per_minute

\* C25: when the WebSocket connection to ActivityWatch fails, start_bridge falls
\* back to polling: periodic_sync eventually runs.
C25_FallsBackToPolling ==
    bridge.ws_failed ~> (bridge.pc = "polling")

\* the events that POSTs answered 200 carried
Delivered200 ==
    UNION { {bridge.posts[i].events[k] : k \in 1..Len(bridge.posts[i].events)} :
              i \in {n \in 1..Len(bridge.posts) : bridge.posts[n].answer = HTTP_OK} }

BufferedEvents ==
    {bridge.screentime_buffer[k] : k \in 1..Len(bridge.screentime_buffer)}

\* C26: the buffer is emptied exactly when a send is answered 200: no event that a
\* send answered 200 carried is still buffered (so none is sent again), and every
\* event received is either still buffered or was carried by a send answered 200.
C26_BufferEmptiedExactlyOn200 ==
    /\ BufferedEvents \cap Delivered200 = {}
    /\ \A n \in 1..bridge.received :
         \E e \in BufferedEvents \cup Delivered200 : e.id = n

\* C29: every event that the endpoints /pubsub/market and /pubsub/screentime
\* publish has the fields the consumer requires for its stream.
C29_PublishedShapeAccepted ==
    \A m \in 1..Len(msgs) : HasRequired(msgs[m].stream, msgs[m].payload.data)

\* C30: an ingestion endpoint answers success only if the broker accepted every
\* event of the request.
C30_SuccessOnlyIfAllPublished ==
    (response.op \in {"pubsub_market", "pubsub_screentime"} /\ response.success) =>
        response.published = response.events

====
